---- MODULE Spec2Model ----
(***************************************************************************)
(* Model of the film-location map browser.                                 *)
(*                                                                         *)
(* Two variants of the program exist: script.js, which aggregates the      *)
(* records of one coordinate into a Location and measures radii in pixels  *)
(* (variant "agg"), and the second script, which draws every record as its *)
(* own point and measures radii in kilometres (variant "rec").             *)
(*                                                                         *)
(* Units.  Screen lengths are in sixths of a pixel, so that mapWidth / 3,  *)
(* 2 * mapWidth / 3 and mapHeight / 2 are whole numbers.  Geographic       *)
(* coordinates are in 1e-5 degree.  Radii of the "rec" variant are in      *)
(* tenths of a kilometre.  JavaScript numbers are modelled as records      *)
(* [kind, v] with kind "num", "nan" or "inf".                              *)
(***************************************************************************)
EXTENDS Integers, Sequences, FiniteSets, TLC

VARIABLES
  variant,             \* "agg" (script.js) or "rec" (per-record script)
  pc,                  \* "loading" until the csv promise resolves, then "ready"
  csv,                 \* the rows d3.csv delivers
  allData,             \* rows that passed the load-time coordinate filter
  points,              \* the .location-point elements, in document order
  circleA, circleB,    \* the two query circles [x, y, radius]
  radiusASlider, radiusBSlider,
  yearMinSlider, yearMaxSlider,
  directorOptions, neighborhoodOptions,   \* <option> values after "all"
  directorFilter, neighborhoodFilter,     \* selected <option> value
  visibleCount, totalCount,               \* text of #visibleCount, #totalCount
  circlesLayer,        \* the query circles and labels drawn on the canvas
  yearRangeDisplay,    \* text of #year-range-display: <<yearMin, yearMax>>
  lastEvent            \* history: "none", "load", "reset", "yearMinPush" (a
                       \* yearMin input above yearMax), "yearMaxPush" (a
                       \* yearMax input below yearMin) or "other"

vars == <<variant, pc, csv, allData, points, circleA, circleB,
          radiusASlider, radiusBSlider, yearMinSlider, yearMaxSlider,
          directorOptions, neighborhoodOptions, directorFilter,
          neighborhoodFilter, visibleCount, totalCount, circlesLayer,
          yearRangeDisplay, lastEvent>>

-----------------------------------------------------------------------------
(* Bounds of the model *)

\* Elements the canvas layer may hold.  A render of script.js replaces its
\* four elements; a render of the per-record script leaves its two labels
\* behind, so there the layer grows by two with every re-render.
MaxLayer == 8

-----------------------------------------------------------------------------
(* Program constants *)

mapWidth == 4920          \* 1968 / 2.4 px
mapHeight == 3950         \* 1580 / 2.4 px

longitudeRange == <<-12252877, -12234501>>
latitudeRange == <<3769948, 3781633>>

Abs(n) == IF n < 0 THEN -n ELSE n
Min(a, b) == IF a < b THEN a ELSE b
Max(a, b) == IF a > b THEN a ELSE b

-----------------------------------------------------------------------------
(* JavaScript numbers and the unary plus on the strings the model uses *)

Num(n) == [kind |-> "num", v |-> n]
NaN == [kind |-> "nan", v |-> 0]
Infinity == [kind |-> "inf", v |-> 0]

\* +s : empty and blank strings coerce to 0, non-numeric text to NaN.
\* Year strings are valued in years, coordinate strings in 1e-5 degree.
ToNumber(s) ==
  CASE s = "" -> Num(0)
    [] s = " " -> Num(0)
    [] s = "0" -> Num(0)
    [] s = "abc" -> NaN
    [] s = "Infinity" -> Infinity
    [] s = "1950" -> Num(1950)
    [] s = "1960" -> Num(1960)
    [] s = "1980" -> Num(1980)
    [] s = "2010" -> Num(2010)
    [] s = "-122.43689" -> Num(-12243689)
    [] s = "-122.436890" -> Num(-12243689)
    [] s = "-122.50877" -> Num(-12250877)
    [] s = "37.75790" -> Num(3775790)
    [] s = "37.79948" -> Num(3779948)
    [] OTHER -> NaN

\* Number.isFinite
IsFinite(n) == n.kind = "num"

\* variant of Falsy that takes only NaN for "no year"
Falsy_OnlyNaN(n) == n.kind = "nan"

\* !year : NaN and 0 are falsy
Falsy(n) == n.kind = "nan" \/ (n.kind = "num" /\ n.v = 0)

\* String.prototype.trim on the strings the model uses
Trim(s) ==
  CASE s = " " -> ""
    [] s = " X" -> "X"
    [] OTHER -> s

\* Rank of a string in the order Array.prototype.sort gives (UTF-16 code units)
StrRank(s) ==
  CASE s = "Marina" -> 1
    [] s = "Mission" -> 2
    [] s = "X" -> 3
    [] s = "Y" -> 4
    [] s = "all" -> 5
    [] OTHER -> 0

-----------------------------------------------------------------------------
(* Projection *)

\* a * b \div c for a >= 0, b > 0, c > 0 without leaving the integer range
MulDiv(a, b, c) == (a \div c) * b + ((a % c) * b) \div c

\* projection([lon, lat]) : the Mercator projection fitted to the map frame,
\* linearised over the frame (x is linear in longitude; y grows southwards).
projection(lon, lat) ==
  LET dLon == longitudeRange[2] - longitudeRange[1]
      dLat == latitudeRange[2] - latitudeRange[1]
      offX == lon - longitudeRange[1]
      offY == latitudeRange[2] - lat
      sx == IF offX >= 0 THEN MulDiv(offX, mapWidth, dLon)
                         ELSE -MulDiv(-offX, mapWidth, dLon)
      sy == IF offY >= 0 THEN MulDiv(offY, mapHeight, dLat)
                         ELSE -MulDiv(-offY, mapHeight, dLat)
  IN <<sx, sy>>

-----------------------------------------------------------------------------
(* Query circles *)

defaultRadius(v) == IF v = "agg" THEN 300 ELSE 10   \* 50 px, 1.0 km

defaultCircleA(v) == [x |-> mapWidth \div 3, y |-> mapHeight \div 2,
                      radius |-> defaultRadius(v)]
defaultCircleB(v) == [x |-> (2 * mapWidth) \div 3, y |-> mapHeight \div 2,
                      radius |-> defaultRadius(v)]

KmPerDegree == 8776       \* 111.0 * cos(avgLat), in 1/100 km

\* pixelsPerKm of kmToPixels: one kilometre east of the frame's centre, projected
pixelsPerKm ==
  LET avgLat == (latitudeRange[1] + latitudeRange[2]) \div 2
      degreesPerKm == (100000 * 100) \div KmPerDegree
      centerLon == (longitudeRange[1] + longitudeRange[2]) \div 2
      p1 == projection(centerLon, avgLat)
      p2 == projection(centerLon + degreesPerKm, avgLat)
  IN Abs(p2[1] - p1[1])

\* kmToPixels of the per-record script; km in tenths of a kilometre
kmToPixels(km) == (km * pixelsPerKm) \div 10

\* the radius isInCircle compares against, in screen units
radiusPixels(v, circle) ==
  IF v = "agg" THEN circle.radius ELSE kmToPixels(circle.radius)

\* variant of SqDistLE with a strict comparison
SqDistLE_Strict(dx, dy, r) ==
  /\ Abs(dx) <= Abs(r)
  /\ Abs(dy) <= Abs(r)
  /\ dx * dx + dy * dy < r * r

\* dx*dx + dy*dy <= r*r, evaluated so that far-away points stay in range
SqDistLE(dx, dy, r) ==
  /\ Abs(dx) <= Abs(r)
  /\ Abs(dy) <= Abs(r)
  /\ dx * dx + dy * dy <= r * r

isInCircle(v, px, py, circle) ==
  LET dx == px - circle.x
      dy == py - circle.y
  IN SqDistLE(dx, dy, radiusPixels(v, circle))

\* variant of isInIntersection that tests circle A alone
isInIntersection_OnlyA(v, px, py, cA, cB) == isInCircle(v, px, py, cA)

isInIntersection(v, px, py, cA, cB) ==
  isInCircle(v, px, py, cA) /\ isInCircle(v, px, py, cB)

-----------------------------------------------------------------------------
(* Rows of the csv file.  All fields are strings. *)

Row(title, year, director, neighborhood, lon, lat) ==
  [Title |-> title, ReleaseYear |-> year, Director |-> director,
   AnalysisNeighborhood |-> neighborhood, Longitude |-> lon, Latitude |-> lat]

\* Three films shot at one coordinate and one film far away from it.
SharedDataset ==
  << Row("T1", "1950", "X", "Mission", "-122.43689", "37.75790"),
     Row("T2", "1980", "Y", "Mission", "-122.43689", "37.75790"),
     Row("T3", "2010", "X", "Mission", "-122.43689", "37.75790"),
     Row("T4", "1980", "Y", "Marina", "-122.50877", "37.79948") >>

\* Rows with empty, non-numeric and zero fields.
EdgeDataset ==
  << Row("E1", "", "X", "Mission", "-122.43689", "37.75790"),
     Row("E2", "abc", " X", "Mission", "-122.436890", "37.75790"),
     Row("E3", "0", "Y", "Marina", "-122.43689", "37.75790"),
     Row("E4", "1960", "Y", "Marina", "-122.436890", "37.75790"),
     Row("E5", "1980", "", "", "", "37.75790"),
     Row("E6", "2010", "X", "Mission", "abc", "37.75790"),
     Row("E7", "2010", "X", "Mission", "-122.43689", "Infinity") >>

Datasets == {SharedDataset, EdgeDataset}

\* Rows from which the csv files of the loading specification are drawn:
\* two rows at one coordinate, a row whose longitude is spelled differently,
\* a row sharing only the longitude, a row without a longitude and a row
\* whose longitude is not a number.
CatalogueRows ==
  { Row("K1", "1950", "X", "Mission", "-122.43689", "37.75790"),
    Row("K2", "1980", "Y", "Mission", "-122.43689", "37.75790"),
    Row("K3", "abc", " X", "Mission", "-122.436890", "37.75790"),
    Row("K4", "2010", "Y", "Marina", "-122.43689", "37.79948"),
    Row("K5", "1980", "", "", "", "37.75790"),
    Row("K6", "2010", "X", "Mission", "abc", "37.75790") }

MaxRecords == 3

\* every csv file of at most MaxRecords rows of the catalogue, repeats included
CatalogueDatasets ==
  UNION { [1..n -> CatalogueRows] : n \in 0..MaxRecords }

-----------------------------------------------------------------------------
(* Loading *)

\* the load-time filter of the csv rows
hasValidCoordinates(d) ==
  LET lon == ToNumber(d.Longitude)
      lat == ToNumber(d.Latitude)
  IN IsFinite(lon) /\ IsFinite(lat)

FieldOf(d, field) ==
  IF field = "Director" THEN d.Director ELSE d.AnalysisNeighborhood

\* Array.prototype.sort of a set of strings
RECURSIVE SortStrings(_)
SortStrings(S) ==
  IF S = {} THEN <<>>
  ELSE LET least == CHOOSE s \in S : \A t \in S : StrRank(s) <= StrRank(t)
       IN <<least>> \o SortStrings(S \ {least})

getUniqueValues(data, field) ==
  LET values == { Trim(FieldOf(data[i], field)) :
                    i \in { j \in 1..Len(data) :
                              /\ FieldOf(data[j], field) # ""
                              /\ Trim(FieldOf(data[j], field)) # "" } }
  IN SortStrings(values)

\* variant of locationKey that keys a location by its longitude alone
locationKey_LongitudeOnly(d) == d.Longitude

\* the key of the location map: `${d.Longitude},${d.Latitude}`
locationKey(d) == d.Longitude \o "," \o d.Latitude

\* the location map of renderDataPoints, as the sequence of its values
locationData(data) ==
  LET locs[i \in 0..Len(data)] ==
        IF i = 0 THEN <<>>
        ELSE LET d == data[i]
                 prev == locs[i - 1]
                 at == { k \in 1..Len(prev) : prev[k].key = locationKey(d) }
             IN IF at = {}
                THEN Append(prev, [key |-> locationKey(d),
                                   longitude |-> d.Longitude,
                                   latitude |-> d.Latitude,
                                   movies |-> <<d>>,
                                   data |-> d])
                ELSE [k \in 1..Len(prev) |->
                        IF k \in at
                        THEN [prev[k] EXCEPT !.movies = Append(@, d)]
                        ELSE prev[k]]
  IN locs[Len(data)]

\* one .location-point element; its datum is a location ("agg") or a row ("rec")
pointElement(lon, lat, datum, fill) ==
  LET xy == projection(ToNumber(lon).v, ToNumber(lat).v)
  IN [cx |-> xy[1], cy |-> xy[2], d |-> datum, fill |-> fill]

renderDataPoints(v, data) ==
  IF v = "agg"
  THEN LET locations == locationData(data)
       IN [i \in 1..Len(locations) |->
             pointElement(locations[i].longitude, locations[i].latitude,
                          locations[i], "red")]
  ELSE [i \in 1..Len(data) |->
          pointElement(data[i].Longitude, data[i].Latitude, data[i], "#e74c3c")]

-----------------------------------------------------------------------------
(* The filter pass *)

\* the year test of updateFilters
inYearRange(movie, yearMin, yearMax) ==
  LET year == ToNumber(movie.ReleaseYear)
  IN Falsy(year) \/ (year.kind = "num" /\ year.v >= yearMin /\ year.v <= yearMax)

directorMatch(movie, selectedDirector) ==
  selectedDirector = "all" \/ movie.Director = selectedDirector

neighborhoodMatch(movie, selectedNeighborhood) ==
  selectedNeighborhood = "all" \/ movie.AnalysisNeighborhood = selectedNeighborhood

\* the predicate of d.movies.filter (script.js) and the three record tests of
\* the per-record script
movieMatches(movie, yearMin, yearMax, selectedDirector, selectedNeighborhood) ==
  /\ inYearRange(movie, yearMin, yearMax)
  /\ directorMatch(movie, selectedDirector)
  /\ neighborhoodMatch(movie, selectedNeighborhood)

\* variant of matchingMovies that tests only the first member of the location
matchingMovies_FirstOnly(loc, yearMin, yearMax, selectedDirector, selectedNeighborhood) ==
  SelectSeq(<<Head(loc.movies)>>,
            LAMBDA m : movieMatches(m, yearMin, yearMax, selectedDirector,
                                    selectedNeighborhood))

\* matchingMovies of one location
matchingMovies(loc, yearMin, yearMax, selectedDirector, selectedNeighborhood) ==
  SelectSeq(loc.movies,
            LAMBDA m : movieMatches(m, yearMin, yearMax, selectedDirector,
                                    selectedNeighborhood))

\* `visible` of one .location-point element
pointVisible(v, pt, cA, cB, yearMin, yearMax, selectedDirector, selectedNeighborhood) ==
  IF v = "agg"
  THEN /\ isInIntersection(v, pt.cx, pt.cy, cA, cB)
       /\ Len(matchingMovies(pt.d, yearMin, yearMax, selectedDirector,
                             selectedNeighborhood)) > 0
  ELSE /\ isInIntersection(v, pt.cx, pt.cy, cA, cB)
       /\ movieMatches(pt.d, yearMin, yearMax, selectedDirector,
                       selectedNeighborhood)

\* variant of countIncrement that counts a visible location once
countIncrement_One(v, pt, yearMin, yearMax, selectedDirector, selectedNeighborhood) == 1

\* what a visible point adds to visibleCount
countIncrement(v, pt, yearMin, yearMax, selectedDirector, selectedNeighborhood) ==
  IF v = "agg"
  THEN Len(matchingMovies(pt.d, yearMin, yearMax, selectedDirector,
                          selectedNeighborhood))
  ELSE 1

visibleFill(v) == IF v = "agg" THEN "red" ELSE "#e74c3c"
hiddenFill(v) == IF v = "agg" THEN "gray" ELSE "#bdc3c7"

\* updateFilters: one pass over the .location-point elements in document
\* order, restyling each and accumulating visibleCount
updateFilters(v, pts, cA, cB, yearMin, yearMax, selectedDirector, selectedNeighborhood) ==
  LET pass[i \in 0..Len(pts)] ==
        IF i = 0 THEN [points |-> <<>>, visibleCount |-> 0,
                       yearRangeDisplay |-> <<>>]
        ELSE LET prev == pass[i - 1]
                 visible == pointVisible(v, pts[i], cA, cB, yearMin, yearMax,
                                         selectedDirector, selectedNeighborhood)
             IN IF visible
                THEN [prev EXCEPT
                        !.points = Append(@, [pts[i] EXCEPT !.fill = visibleFill(v)]),
                        !.visibleCount = @ +
                           countIncrement(v, pts[i], yearMin, yearMax,
                                          selectedDirector, selectedNeighborhood)]
                ELSE [prev EXCEPT
                        !.points = Append(@, [pts[i] EXCEPT !.fill = hiddenFill(v)])]
  IN [pass[Len(pts)] EXCEPT !.yearRangeDisplay = <<yearMin, yearMax>>]

-----------------------------------------------------------------------------
(* Drawing the query circles *)

circleShape(v, circle) ==
  [tag |-> "circle", class |-> "query-circle", x |-> circle.x, y |-> circle.y,
   r |-> radiusPixels(v, circle), text |-> ""]

\* script.js leaves the label's class "query-circle-label"; the per-record
\* script sets the class attribute a second time, to "circle-label"
labelShape(v, circle, name) ==
  [tag |-> "text",
   class |-> IF v = "agg" THEN "query-circle-label" ELSE "circle-label",
   x |-> circle.x, y |-> circle.y, r |-> 0, text |-> name]

renderQueryCircles(v, layer, cA, cB) ==
  LET kept == SelectSeq(layer, LAMBDA e :
                  e.class \notin {"query-circle", "query-circle-label"})
  IN kept \o << circleShape(v, cA), labelShape(v, cA, "A"),
                circleShape(v, cB), labelShape(v, cB, "B") >>

-----------------------------------------------------------------------------
(* Inputs of the user interface *)

yearSliderMin(v) == IF v = "agg" THEN 1915 ELSE 1940
yearSliderMax(v) == IF v = "agg" THEN 2023 ELSE 2025

YearValues(v) == {yearSliderMin(v), 1960, yearSliderMax(v)}
RadiusValues(v) == IF v = "agg" THEN {300, 900} ELSE {10, 30}

\* pointer positions of drag events: one that puts the shared coordinate on
\* the edge of a default-sized circle, the shared coordinate itself, and a
\* position outside the canvas (left of it and below it)
DragPositions(v) ==
  { <<2460 - radiusPixels(v, defaultCircleA(v)), 1975>>,
    <<2460, 1975>>,
    <<-600, 4200>> }

-----------------------------------------------------------------------------
(* State machine *)

\* The page (index.html) is not among the sources: the sliders and dropdowns
\* are taken to start at the values the reset handler gives them.
Init ==
  /\ variant \in {"agg", "rec"}
  /\ pc = "loading"
  /\ csv \in Datasets
  /\ allData = <<>>
  /\ points = <<>>
  /\ circleA = defaultCircleA(variant)
  /\ circleB = defaultCircleB(variant)
  /\ radiusASlider = defaultRadius(variant)
  /\ radiusBSlider = defaultRadius(variant)
  /\ yearMinSlider = yearSliderMin(variant)
  /\ yearMaxSlider = yearSliderMax(variant)
  /\ directorOptions = <<>>
  /\ neighborhoodOptions = <<>>
  /\ directorFilter = "all"
  /\ neighborhoodFilter = "all"
  /\ visibleCount = 0
  /\ totalCount = 0
  /\ circlesLayer = <<>>
  /\ yearRangeDisplay = <<>>
  /\ lastEvent = "none"

\* the tail of every handler: updateFilters() on the state the handler leaves
RunUpdateFilters(pts, cA, cB, yearMin, yearMax, selectedDirector, selectedNeighborhood) ==
  LET res == updateFilters(variant, pts, cA, cB, yearMin, yearMax,
                           selectedDirector, selectedNeighborhood)
  IN /\ points' = res.points
     /\ visibleCount' = res.visibleCount
     /\ yearRangeDisplay' = res.yearRangeDisplay

\* d3.csv(...).then(data => ...)
Load ==
  /\ pc = "loading"
  /\ pc' = "ready"
  /\ lastEvent' = "load"
  /\ allData' = SelectSeq(csv, hasValidCoordinates)
  /\ totalCount' = Len(allData')
  /\ directorOptions' = getUniqueValues(allData', "Director")
  /\ neighborhoodOptions' = getUniqueValues(allData', "Analysis Neighborhood")
  /\ circlesLayer' = renderQueryCircles(variant, circlesLayer, circleA, circleB)
  /\ RunUpdateFilters(renderDataPoints(variant, allData'), circleA, circleB,
                      yearMinSlider, yearMaxSlider, directorFilter,
                      neighborhoodFilter)
  /\ UNCHANGED <<variant, csv, circleA, circleB, radiusASlider, radiusBSlider,
                 yearMinSlider, yearMaxSlider, directorFilter,
                 neighborhoodFilter>>

\* variant of clamp without the upper limit
clamp_NoUpperLimit(value, limit) == Max(0, value)

\* Math.max(0, Math.min(limit, value))
clamp(value, limit) == Max(0, Min(limit, value))

\* a re-render is modelled while the layer has room for what it draws
CanRender(cA, cB) ==
  Len(renderQueryCircles(variant, circlesLayer, cA, cB)) <= MaxLayer

\* drag handler of circle A
DragA(pos) ==
  /\ pc = "ready"
  /\ circleA' = [circleA EXCEPT !.x = clamp(pos[1], mapWidth),
                                !.y = clamp(pos[2], mapHeight)]
  /\ CanRender(circleA', circleB)
  /\ circlesLayer' = renderQueryCircles(variant, circlesLayer, circleA', circleB)
  /\ RunUpdateFilters(points, circleA', circleB, yearMinSlider, yearMaxSlider,
                      directorFilter, neighborhoodFilter)
  /\ lastEvent' = "other"
  /\ UNCHANGED <<variant, pc, csv, allData, circleB, radiusASlider,
                 radiusBSlider, yearMinSlider, yearMaxSlider, directorOptions,
                 neighborhoodOptions, directorFilter, neighborhoodFilter,
                 totalCount>>

\* variant of DragB that writes the centre of circle A
DragB_MovesA(pos) ==
  /\ pc = "ready"
  /\ circleA' = [circleA EXCEPT !.x = clamp(pos[1], mapWidth),
                                !.y = clamp(pos[2], mapHeight)]
  /\ CanRender(circleA', circleB)
  /\ circlesLayer' = renderQueryCircles(variant, circlesLayer, circleA', circleB)
  /\ RunUpdateFilters(points, circleA', circleB, yearMinSlider, yearMaxSlider,
                      directorFilter, neighborhoodFilter)
  /\ lastEvent' = "other"
  /\ UNCHANGED <<variant, pc, csv, allData, circleB, radiusASlider,
                 radiusBSlider, yearMinSlider, yearMaxSlider, directorOptions,
                 neighborhoodOptions, directorFilter, neighborhoodFilter,
                 totalCount>>

\* drag handler of circle B
DragB(pos) ==
  /\ pc = "ready"
  /\ circleB' = [circleB EXCEPT !.x = clamp(pos[1], mapWidth),
                                !.y = clamp(pos[2], mapHeight)]
  /\ CanRender(circleA, circleB')
  /\ circlesLayer' = renderQueryCircles(variant, circlesLayer, circleA, circleB')
  /\ RunUpdateFilters(points, circleA, circleB', yearMinSlider, yearMaxSlider,
                      directorFilter, neighborhoodFilter)
  /\ lastEvent' = "other"
  /\ UNCHANGED <<variant, pc, csv, allData, circleA, radiusASlider,
                 radiusBSlider, yearMinSlider, yearMaxSlider, directorOptions,
                 neighborhoodOptions, directorFilter, neighborhoodFilter,
                 totalCount>>

\* 'input' handler of the radius slider of circle A
RadiusAInput(value) ==
  /\ pc = "ready"
  /\ value # radiusASlider
  /\ radiusASlider' = value
  /\ circleA' = [circleA EXCEPT !.radius = value]
  /\ CanRender(circleA', circleB)
  /\ circlesLayer' = renderQueryCircles(variant, circlesLayer, circleA', circleB)
  /\ RunUpdateFilters(points, circleA', circleB, yearMinSlider, yearMaxSlider,
                      directorFilter, neighborhoodFilter)
  /\ lastEvent' = "other"
  /\ UNCHANGED <<variant, pc, csv, allData, circleB, radiusBSlider,
                 yearMinSlider, yearMaxSlider, directorOptions,
                 neighborhoodOptions, directorFilter, neighborhoodFilter,
                 totalCount>>

\* 'input' handler of the radius slider of circle B
RadiusBInput(value) ==
  /\ pc = "ready"
  /\ value # radiusBSlider
  /\ radiusBSlider' = value
  /\ circleB' = [circleB EXCEPT !.radius = value]
  /\ CanRender(circleA, circleB')
  /\ circlesLayer' = renderQueryCircles(variant, circlesLayer, circleA, circleB')
  /\ RunUpdateFilters(points, circleA, circleB', yearMinSlider, yearMaxSlider,
                      directorFilter, neighborhoodFilter)
  /\ lastEvent' = "other"
  /\ UNCHANGED <<variant, pc, csv, allData, circleA, radiusASlider,
                 yearMinSlider, yearMaxSlider, directorOptions,
                 neighborhoodOptions, directorFilter, neighborhoodFilter,
                 totalCount>>

\* variants of the two handlers' adjustments that leave the other slider alone
yearMaxAfterMinInput_NoPush(minVal, maxVal) == maxVal
yearMinAfterMaxInput_NoPush(maxVal, minVal) == minVal

\* the value the yearMin handler leaves in the yearMax slider
yearMaxAfterMinInput(minVal, maxVal) == IF minVal > maxVal THEN minVal ELSE maxVal

\* the value the yearMax handler leaves in the yearMin slider
yearMinAfterMaxInput(maxVal, minVal) == IF maxVal < minVal THEN maxVal ELSE minVal

\* 'input' handler of the yearMin slider; the slider already holds the value
YearMinInput(value) ==
  /\ pc = "ready"
  /\ value # yearMinSlider
  /\ yearMinSlider' = value
  /\ yearMaxSlider' = yearMaxAfterMinInput(value, yearMaxSlider)
  /\ lastEvent' = IF value > yearMaxSlider THEN "yearMinPush" ELSE "other"
  /\ RunUpdateFilters(points, circleA, circleB, yearMinSlider', yearMaxSlider',
                      directorFilter, neighborhoodFilter)
  /\ UNCHANGED <<variant, pc, csv, allData, circleA, circleB, radiusASlider,
                 radiusBSlider, directorOptions, neighborhoodOptions,
                 directorFilter, neighborhoodFilter, totalCount, circlesLayer>>

\* 'input' handler of the yearMax slider
YearMaxInput(value) ==
  /\ pc = "ready"
  /\ value # yearMaxSlider
  /\ yearMaxSlider' = value
  /\ yearMinSlider' = yearMinAfterMaxInput(value, yearMinSlider)
  /\ lastEvent' = IF value < yearMinSlider THEN "yearMaxPush" ELSE "other"
  /\ RunUpdateFilters(points, circleA, circleB, yearMinSlider', yearMaxSlider',
                      directorFilter, neighborhoodFilter)
  /\ UNCHANGED <<variant, pc, csv, allData, circleA, circleB, radiusASlider,
                 radiusBSlider, directorOptions, neighborhoodOptions,
                 directorFilter, neighborhoodFilter, totalCount, circlesLayer>>

\* the <option> values of a dropdown
OptionValues(options) == {"all"} \cup { options[i] : i \in 1..Len(options) }

\* variant of DirectorChange that leaves the display as it was
DirectorChange_NoPass(option) ==
  /\ pc = "ready"
  /\ option # directorFilter
  /\ directorFilter' = option
  /\ lastEvent' = "other"
  /\ UNCHANGED <<variant, pc, csv, allData, points, circleA, circleB,
                 radiusASlider, radiusBSlider, yearMinSlider, yearMaxSlider,
                 directorOptions, neighborhoodOptions, neighborhoodFilter,
                 visibleCount, totalCount, circlesLayer, yearRangeDisplay>>

\* 'change' handler of the director dropdown
DirectorChange(option) ==
  /\ pc = "ready"
  /\ option # directorFilter
  /\ directorFilter' = option
  /\ RunUpdateFilters(points, circleA, circleB, yearMinSlider, yearMaxSlider,
                      directorFilter', neighborhoodFilter)
  /\ lastEvent' = "other"
  /\ UNCHANGED <<variant, pc, csv, allData, circleA, circleB, radiusASlider,
                 radiusBSlider, yearMinSlider, yearMaxSlider, directorOptions,
                 neighborhoodOptions, neighborhoodFilter, totalCount,
                 circlesLayer>>

\* 'change' handler of the neighborhood dropdown
NeighborhoodChange(option) ==
  /\ pc = "ready"
  /\ option # neighborhoodFilter
  /\ neighborhoodFilter' = option
  /\ RunUpdateFilters(points, circleA, circleB, yearMinSlider, yearMaxSlider,
                      directorFilter, neighborhoodFilter')
  /\ lastEvent' = "other"
  /\ UNCHANGED <<variant, pc, csv, allData, circleA, circleB, radiusASlider,
                 radiusBSlider, yearMinSlider, yearMaxSlider, directorOptions,
                 neighborhoodOptions, directorFilter, totalCount, circlesLayer>>

\* variant of Reset that leaves the year sliders as they are
Reset_KeepsYearRange ==
  /\ pc = "ready"
  /\ circleA' = defaultCircleA(variant)
  /\ circleB' = defaultCircleB(variant)
  /\ radiusASlider' = defaultRadius(variant)
  /\ radiusBSlider' = defaultRadius(variant)
  /\ directorFilter' = "all"
  /\ neighborhoodFilter' = "all"
  /\ CanRender(circleA', circleB')
  /\ circlesLayer' = renderQueryCircles(variant, circlesLayer, circleA', circleB')
  /\ RunUpdateFilters(points, circleA', circleB', yearMinSlider, yearMaxSlider,
                      directorFilter', neighborhoodFilter')
  /\ lastEvent' = "reset"
  /\ UNCHANGED <<variant, pc, csv, allData, directorOptions,
                 neighborhoodOptions, totalCount, yearMinSlider, yearMaxSlider>>

\* 'click' handler of the reset button
Reset ==
  /\ pc = "ready"
  /\ circleA' = defaultCircleA(variant)
  /\ circleB' = defaultCircleB(variant)
  /\ radiusASlider' = defaultRadius(variant)
  /\ radiusBSlider' = defaultRadius(variant)
  /\ yearMinSlider' = yearSliderMin(variant)
  /\ yearMaxSlider' = yearSliderMax(variant)
  /\ directorFilter' = "all"
  /\ neighborhoodFilter' = "all"
  /\ CanRender(circleA', circleB')
  /\ circlesLayer' = renderQueryCircles(variant, circlesLayer, circleA', circleB')
  /\ RunUpdateFilters(points, circleA', circleB', yearMinSlider', yearMaxSlider',
                      directorFilter', neighborhoodFilter')
  /\ lastEvent' = "reset"
  /\ UNCHANGED <<variant, pc, csv, allData, directorOptions,
                 neighborhoodOptions, totalCount>>

Next ==
  \/ Load
  \/ \E pos \in DragPositions(variant) : DragA(pos)
  \/ \E pos \in DragPositions(variant) : DragB(pos)
  \/ \E value \in RadiusValues(variant) : RadiusAInput(value)
  \/ \E value \in RadiusValues(variant) : RadiusBInput(value)
  \/ \E value \in YearValues(variant) : YearMinInput(value)
  \/ \E value \in YearValues(variant) : YearMaxInput(value)
  \/ \E option \in OptionValues(directorOptions) : DirectorChange(option)
  \/ \E option \in OptionValues(neighborhoodOptions) : NeighborhoodChange(option)
  \/ Reset

Spec == Init /\ [][Next]_vars

\* The page loaded with an arbitrary small csv file, and its dropdowns used.
LoadInit ==
  /\ variant \in {"agg", "rec"}
  /\ pc = "loading"
  /\ csv \in CatalogueDatasets
  /\ allData = <<>>
  /\ points = <<>>
  /\ circleA = defaultCircleA(variant)
  /\ circleB = defaultCircleB(variant)
  /\ radiusASlider = defaultRadius(variant)
  /\ radiusBSlider = defaultRadius(variant)
  /\ yearMinSlider = yearSliderMin(variant)
  /\ yearMaxSlider = yearSliderMax(variant)
  /\ directorOptions = <<>>
  /\ neighborhoodOptions = <<>>
  /\ directorFilter = "all"
  /\ neighborhoodFilter = "all"
  /\ visibleCount = 0
  /\ totalCount = 0
  /\ circlesLayer = <<>>
  /\ yearRangeDisplay = <<>>
  /\ lastEvent = "none"

LoadNext ==
  \/ Load
  \/ \E option \in OptionValues(directorOptions) : DirectorChange(option)
  \/ \E option \in OptionValues(neighborhoodOptions) : NeighborhoodChange(option)

LoadSpec == LoadInit /\ [][LoadNext]_vars

-----------------------------------------------------------------------------
(* Vocabulary of the properties *)

Ready == pc = "ready"

Shown(pt) == pt.fill = visibleFill(variant)

\* squared distance and squared radius, for points on or near the canvas
SqDist(px, py, circle) ==
  (px - circle.x) * (px - circle.x) + (py - circle.y) * (py - circle.y)
SqRadius(circle) == radiusPixels(variant, circle) * radiusPixels(variant, circle)

NearCanvas(px, py) ==
  /\ px >= -mapWidth /\ px <= 2 * mapWidth
  /\ py >= -mapHeight /\ py <= 2 * mapHeight

\* the point lies inside the circle, its edge included
Inside(px, py, circle) ==
  NearCanvas(px, py) /\ SqDist(px, py, circle) <= SqRadius(circle)

\* the release year field holds no number: it is empty or does not parse
YearAbsent(movie) ==
  movie.ReleaseYear = "" \/ ToNumber(movie.ReleaseYear).kind = "nan"

\* the three record conditions as the specification states them
RecordConditions(movie) ==
  /\ \/ YearAbsent(movie)
     \/ /\ ToNumber(movie.ReleaseYear).kind = "num"
        /\ yearMinSlider <= ToNumber(movie.ReleaseYear).v
        /\ ToNumber(movie.ReleaseYear).v <= yearMaxSlider
  /\ directorFilter = "all" \/ directorFilter = movie.Director
  /\ neighborhoodFilter = "all" \/ neighborhoodFilter = movie.AnalysisNeighborhood

-----------------------------------------------------------------------------
(* C1 *)

\* C1: in the aggregating variant, after a filter pass a location is shown as
\* visible if and only if its screen point lies inside both query circles and
\* at least one of its member records satisfies the three record conditions
\* (year absent or yearMin <= year <= yearMax; director "all" or equal;
\* neighborhood "all" or equal).
C1_VisibleIffInBothAndSomeRecord ==
  (Ready /\ variant = "agg") =>
    \A i \in 1..Len(points) :
      Shown(points[i]) <=>
        /\ Inside(points[i].cx, points[i].cy, circleA)
        /\ Inside(points[i].cx, points[i].cy, circleB)
        /\ \E k \in 1..Len(points[i].d.movies) :
              RecordConditions(points[i].d.movies[k])

\* C1 holds for every location none of whose records has the year 0.
YearZero(movie) ==
  ToNumber(movie.ReleaseYear) = Num(0) /\ movie.ReleaseYear # ""

C1_ExceptYearZero ==
  (Ready /\ variant = "agg") =>
    \A i \in 1..Len(points) :
      (\A k \in 1..Len(points[i].d.movies) : ~YearZero(points[i].d.movies[k]))
      => (Shown(points[i]) <=>
            /\ Inside(points[i].cx, points[i].cy, circleA)
            /\ Inside(points[i].cx, points[i].cy, circleB)
            /\ \E k \in 1..Len(points[i].d.movies) :
                  RecordConditions(points[i].d.movies[k]))

-----------------------------------------------------------------------------
(* C2 *)

\* the member records of a location that passed the filter of the pass
PassedRecords(pt) ==
  { k \in 1..Len(pt.d.movies) :
      movieMatches(pt.d.movies[k], yearMinSlider, yearMaxSlider,
                   directorFilter, neighborhoodFilter) }

RECURSIVE SumOfPassed(_, _)
SumOfPassed(pts, n) ==
  IF n = 0 THEN 0
  ELSE SumOfPassed(pts, n - 1) +
       (IF Shown(pts[n]) THEN Cardinality(PassedRecords(pts[n])) ELSE 0)

\* the end-to-end example: the shared coordinate lies in both circles, the
\* distant one in neither, yearMin = 1960 and nothing else restricts
SharedExample ==
  /\ Ready /\ variant = "agg" /\ csv = SharedDataset
  /\ yearMinSlider = 1960 /\ yearMaxSlider = yearSliderMax(variant)
  /\ directorFilter = "all" /\ neighborhoodFilter = "all"
  /\ Inside(points[1].cx, points[1].cy, circleA)
  /\ Inside(points[1].cx, points[1].cy, circleB)
  /\ ~Inside(points[2].cx, points[2].cy, circleA)
  /\ ~Inside(points[2].cx, points[2].cy, circleB)

-----------------------------------------------------------------------------
(* C3 *)

\* a coordinate field that is missing or malformed
CoordinateMissing(field) == field = "" \/ ~IsFinite(ToNumber(field))

\* C3: every row whose longitude or latitude is missing or malformed (empty
\* field included) is dropped at load: it is not in allData, belongs to no
\* drawn point and is not counted.
C3_RowsWithoutCoordinatesDropped ==
  Ready =>
    LET bad == { i \in 1..Len(csv) :
                   \/ CoordinateMissing(csv[i].Longitude)
                   \/ CoordinateMissing(csv[i].Latitude) }
    IN /\ \A i \in bad : \A j \in 1..Len(allData) : allData[j] # csv[i]
       /\ totalCount = Len(csv) - Cardinality(bad)
       /\ \A i \in bad : \A j \in 1..Len(points) :
            IF variant = "agg"
            THEN \A k \in 1..Len(points[j].d.movies) :
                   points[j].d.movies[k] # csv[i]
            ELSE points[j].d # csv[i]

\* rows whose coordinates do not coerce to finite numbers are dropped
C3_NonFiniteRowsDropped ==
  Ready =>
    \A i \in 1..Len(csv) :
      (~IsFinite(ToNumber(csv[i].Longitude)) \/ ~IsFinite(ToNumber(csv[i].Latitude)))
      => \A j \in 1..Len(allData) : allData[j] # csv[i]

-----------------------------------------------------------------------------
(* C4 *)

\* the rows behind a point: the members of a location, or the row itself
RowsOf(pt) ==
  IF variant = "agg" THEN { pt.d.movies[k] : k \in 1..Len(pt.d.movies) }
  ELSE { pt.d }

InBoth(pt) == Inside(pt.cx, pt.cy, circleA) /\ Inside(pt.cx, pt.cy, circleB)

DirectorAndNeighborhoodOk(movie) ==
  /\ directorFilter = "all" \/ directorFilter = movie.Director
  /\ neighborhoodFilter = "all" \/ neighborhoodFilter = movie.AnalysisNeighborhood

\* C4: a row whose release year is empty or does not parse passes the year
\* test for every yearMin/yearMax; the pass styles every point; and such a
\* row makes its point visible exactly when the point is in both circles and
\* the director and neighborhood tests pass.
C4_AbsentYearMatchesAnyRange ==
  Ready =>
    /\ \A i \in 1..Len(points) :
         points[i].fill \in {visibleFill(variant), hiddenFill(variant)}
    /\ Len(points) = IF variant = "agg" THEN Len(locationData(allData))
                                        ELSE Len(allData)
    /\ \A i \in 1..Len(points) : \A m \in RowsOf(points[i]) :
         YearAbsent(m) =>
           /\ \A lo \in YearValues(variant) : \A hi \in YearValues(variant) :
                inYearRange(m, lo, hi)
           /\ (InBoth(points[i]) /\ DirectorAndNeighborhoodOk(m))
                => Shown(points[i])
           /\ variant = "rec" =>
                (Shown(points[i]) =>
                   InBoth(points[i]) /\ DirectorAndNeighborhoodOk(m))

\* a point shown because of a row without a year, under a year range that
\* no row of the datasets with a year falls into
C4_Witness ==
  /\ Ready
  /\ yearMinSlider = yearSliderMax(variant)
  /\ \E i \in 1..Len(points) :
       /\ Shown(points[i])
       /\ \E m \in RowsOf(points[i]) :
            YearAbsent(m) /\ DirectorAndNeighborhoodOk(m)

-----------------------------------------------------------------------------
(* C5 *)

\* points probed around a circle: its centre, points on its edge, points
\* just outside it, and the drawn points on or near the canvas
ProbePoints(circle) ==
  LET r == radiusPixels(variant, circle)
  IN { <<circle.x, circle.y>>,
       <<circle.x + r, circle.y>>, <<circle.x - r, circle.y>>,
       <<circle.x, circle.y + r>>, <<circle.x, circle.y - r>>,
       <<circle.x + (3 * r) \div 5, circle.y + (4 * r) \div 5>>,
       <<circle.x + r + 1, circle.y>>, <<circle.x + r, circle.y + 1>>,
       <<circle.x, circle.y - r - 1>> }
     \cup { <<points[i].cx, points[i].cy>> :
              i \in { j \in 1..Len(points) : NearCanvas(points[j].cx, points[j].cy) } }

\* C5: a point whose squared distance to the centre equals the squared
\* radius is contained; the centre is contained for any radius > 0; a point
\* farther away than the radius is not contained.
C5_InclusiveBoundary ==
  \A circle \in {circleA, circleB} :
    /\ radiusPixels(variant, circle) > 0 =>
         isInCircle(variant, circle.x, circle.y, circle)
    /\ \A p \in ProbePoints(circleA) \cup ProbePoints(circleB) :
         /\ SqDist(p[1], p[2], circle) = SqRadius(circle)
              => isInCircle(variant, p[1], p[2], circle)
         /\ SqDist(p[1], p[2], circle) > SqRadius(circle)
              => ~isInCircle(variant, p[1], p[2], circle)

\* a drawn point exactly on the edge of circle A
C5_Witness ==
  /\ Ready
  /\ \E i \in 1..Len(points) :
       /\ NearCanvas(points[i].cx, points[i].cy)
       /\ SqRadius(circleA) > 0
       /\ SqDist(points[i].cx, points[i].cy, circleA) = SqRadius(circleA)
       /\ isInCircle(variant, points[i].cx, points[i].cy, circleA)

-----------------------------------------------------------------------------
(* C6 *)

\* C6 as stated: the intersection test passes a point only if its distance
\* to each centre is strictly less than that circle's radius.
C6_StrictlyWithinBoth ==
  \A p \in ProbePoints(circleA) \cup ProbePoints(circleB) :
    isInIntersection(variant, p[1], p[2], circleA, circleB)
    => /\ SqDist(p[1], p[2], circleA) < SqRadius(circleA)
       /\ SqDist(p[1], p[2], circleB) < SqRadius(circleB)

\* C6 amended: the intersection test passes a point only if its distance to
\* each centre is at most that circle's radius (a point on an edge passes).
C6_WithinBoth ==
  \A p \in ProbePoints(circleA) \cup ProbePoints(circleB) :
    isInIntersection(variant, p[1], p[2], circleA, circleB)
    => /\ SqDist(p[1], p[2], circleA) <= SqRadius(circleA)
       /\ SqDist(p[1], p[2], circleB) <= SqRadius(circleB)

\* a drawn point on the edge of circle A that passes the intersection test
C6_Witness ==
  /\ Ready
  /\ \E i \in 1..Len(points) :
       /\ NearCanvas(points[i].cx, points[i].cy)
       /\ SqDist(points[i].cx, points[i].cy, circleA) = SqRadius(circleA)
       /\ isInIntersection(variant, points[i].cx, points[i].cy, circleA, circleB)
       /\ Shown(points[i])

-----------------------------------------------------------------------------
(* C7 *)

\* C7: yearMin <= yearMax in every state, and the two values every filter
\* pass read (it writes them to the year range display) are the sliders'
\* values and are ordered.
C7_YearMinAtMostYearMax ==
  /\ yearMinSlider <= yearMaxSlider
  /\ Ready => /\ yearRangeDisplay = <<yearMinSlider, yearMaxSlider>>
              /\ yearRangeDisplay[1] <= yearRangeDisplay[2]

\* a slider input that crossed the other bound has been handled
C7_Witness ==
  /\ lastEvent \in {"yearMinPush", "yearMaxPush"}
  /\ yearMinSlider <= yearMaxSlider

-----------------------------------------------------------------------------
(* C8 *)

\* C8 as stated: when a year slider input would leave yearMin > yearMax, the
\* bound the user moved is set to the other bound's value and the other
\* bound keeps its value.
C8_MovedBoundIsClamped ==
  [][ \A value \in YearValues(variant) :
        /\ (YearMinInput(value) /\ value > yearMaxSlider) =>
             (yearMinSlider' = yearMaxSlider /\ yearMaxSlider' = yearMaxSlider)
        /\ (YearMaxInput(value) /\ value < yearMinSlider) =>
             (yearMaxSlider' = yearMinSlider /\ yearMinSlider' = yearMinSlider)
    ]_vars

\* C8 amended: when a year slider input would leave yearMin > yearMax, the
\* bound the user moved keeps the value the user gave it and the other bound
\* is set to that value.
C8_OtherBoundIsPushed ==
  [][ \A value \in YearValues(variant) :
        /\ (YearMinInput(value) /\ value > yearMaxSlider) =>
             (yearMinSlider' = value /\ yearMaxSlider' = value)
        /\ (YearMaxInput(value) /\ value < yearMinSlider) =>
             (yearMaxSlider' = value /\ yearMinSlider' = value)
    ]_vars

\* a yearMin input above yearMax has been handled and yearMax has moved up
C8_Witness ==
  /\ lastEvent = "yearMinPush"
  /\ yearMaxSlider = yearMinSlider
  /\ yearMaxSlider < yearSliderMax(variant)

-----------------------------------------------------------------------------
(* C9 *)

OnCanvas(circle) ==
  /\ 0 <= circle.x /\ circle.x <= mapWidth
  /\ 0 <= circle.y /\ circle.y <= mapHeight

\* C9: in every reachable state both circle centres lie on the canvas.
C9_CentresOnCanvas == OnCanvas(circleA) /\ OnCanvas(circleB)

\* circle A after a drag to a pointer position left of and below the canvas
C9_Witness ==
  /\ Ready
  /\ circleA.x = 0 /\ circleA.y = mapHeight

-----------------------------------------------------------------------------
(* C10 *)

\* the state the specification gives for a reset: 50 px or 1.0 km radii,
\* years 1915-2023 or 1940-2025, both dropdowns on "all", and the display
\* computed from these values
AfterReset ==
  LET radius == IF variant = "agg" THEN 300 ELSE 10
      yearMin == IF variant = "agg" THEN 1915 ELSE 1940
      yearMax == IF variant = "agg" THEN 2023 ELSE 2025
      cA == [x |-> 1640, y |-> 1975, radius |-> radius]
      cB == [x |-> 3280, y |-> 1975, radius |-> radius]
  IN /\ circleA = cA /\ circleB = cB
     /\ 3 * circleA.x = mapWidth /\ 3 * circleB.x = 2 * mapWidth
     /\ 2 * circleA.y = mapHeight /\ 2 * circleB.y = mapHeight
     /\ radiusASlider = radius /\ radiusBSlider = radius
     /\ yearMinSlider = yearMin /\ yearMaxSlider = yearMax
     /\ directorFilter = "all" /\ neighborhoodFilter = "all"
     /\ yearRangeDisplay = <<yearMin, yearMax>>
     /\ \A i \in 1..Len(points) :
          Shown(points[i]) <=>
            /\ Inside(points[i].cx, points[i].cy, cA)
            /\ Inside(points[i].cx, points[i].cy, cB)
            /\ \E m \in RowsOf(points[i]) : movieMatches(m, yearMin, yearMax, "all", "all")
     /\ visibleCount = SumOfPassed(points, Len(points))

\* C10: from any reachable state a reset click leaves the circles, the
\* radius sliders, the year sliders and the dropdowns at their defaults, and
\* the visibility shown is the one computed from these values.
C10_ResetRestoresDefaults == [][Reset => AfterReset']_vars

C10_Witness == lastEvent = "reset" /\ AfterReset


-----------------------------------------------------------------------------
(* C11: the aggregation partitions the loaded records *)

\* the row carries exactly the raw coordinate strings of the location
SameCoordinates(d, loc) ==
  d.Longitude = loc.longitude /\ d.Latitude = loc.latitude

\* the loaded rows at the coordinates of the location, in load order
MembersOf(loc) == SelectSeq(allData, LAMBDA d : SameCoordinates(d, loc))

RECURSIVE MemberCount(_, _)
MemberCount(pts, n) ==
  IF n = 0 THEN 0 ELSE Len(pts[n].d.movies) + MemberCount(pts, n - 1)

\* C11: in the aggregating script the locations partition the loaded rows:
\* every location's member list is non-empty and is exactly the loaded rows
\* with its raw Longitude and Latitude strings, in first-seen order; no two
\* locations carry the same pair of strings; every loaded row has its
\* location; and the member counts add up to the number of loaded rows.
C11_AggregationPartitions ==
  (Ready /\ variant = "agg") =>
    /\ \A i \in 1..Len(points) :
         /\ points[i].d.movies # <<>>
         /\ points[i].d.movies = MembersOf(points[i].d)
    /\ \A i, j \in 1..Len(points) :
         (i # j) => ~ /\ points[i].d.longitude = points[j].d.longitude
                      /\ points[i].d.latitude = points[j].d.latitude
    /\ \A k \in 1..Len(allData) :
         \E i \in 1..Len(points) : SameCoordinates(allData[k], points[i].d)
    /\ MemberCount(points, Len(points)) = Len(allData)

\* three rows loaded into two locations drawn at one pixel: one location with
\* two rows, the other keyed by a different spelling of the same longitude
C11_Witness ==
  /\ Ready /\ variant = "agg"
  /\ Len(allData) = 3
  /\ Len(points) = 2
  /\ Len(points[1].d.movies) = 2
  /\ points[1].cx = points[2].cx /\ points[1].cy = points[2].cy
  /\ points[1].d.longitude # points[2].d.longitude

-----------------------------------------------------------------------------
(* C12: the display is never stale *)

\* the point passes the filter on the regions and criteria of this state
PassesNow(pt) ==
  /\ InBoth(pt)
  /\ \E m \in RowsOf(pt) :
       movieMatches(m, yearMinSlider, yearMaxSlider, directorFilter,
                    neighborhoodFilter)

\* what the point adds to the count: its passing members, or the row itself
CountsNow(pt) ==
  IF ~PassesNow(pt) THEN 0
  ELSE IF variant = "agg" THEN Cardinality(PassedRecords(pt)) ELSE 1

RECURSIVE CountNow(_, _)
CountNow(pts, n) ==
  IF n = 0 THEN 0 ELSE CountsNow(pts[n]) + CountNow(pts, n - 1)

\* C12: every handler ends with one filter pass on the state it leaves, so
\* between events each point is shown exactly when it passes the filter on
\* the current circles, year sliders and dropdowns, the displayed count is the
\* count of that evaluation, and the displayed year range is the sliders'.
C12_DisplayIsCurrent ==
  Ready =>
    /\ \A i \in 1..Len(points) : Shown(points[i]) <=> PassesNow(points[i])
    /\ visibleCount = CountNow(points, Len(points))
    /\ yearRangeDisplay = <<yearMinSlider, yearMaxSlider>>

\* after drags and a dropdown change one point is shown and another, also in
\* both circles, is hidden by the director chosen
C12_Witness ==
  /\ Ready /\ lastEvent = "other"
  /\ directorFilter # "all"
  /\ circleA # defaultCircleA(variant)
  /\ \E i, j \in 1..Len(points) :
       /\ Shown(points[i])
       /\ ~Shown(points[j]) /\ InBoth(points[j])
  /\ visibleCount > 0

-----------------------------------------------------------------------------
(* C13: what an event leaves alone *)

Criteria ==
  <<yearMinSlider, yearMaxSlider, directorFilter, neighborhoodFilter>>

\* the screen coordinates and the datum (location or row) of every point
Placement(pts) ==
  [i \in 1..Len(pts) |-> <<pts[i].cx, pts[i].cy, pts[i].d>>]

\* C13: a drag of one circle changes at most that circle's centre and leaves
\* its radius, the other circle and the criteria as they were; a radius input
\* changes only that circle's radius; year and dropdown events change neither
\* circle; and no event after the load changes the coordinates or the member
\* rows of any point.
C13_EventsChangeOnlyTheirTarget ==
  [][ /\ (\E pos \in DragPositions(variant) : DragA(pos)) =>
           /\ circleA'.radius = circleA.radius
           /\ circleB' = circleB
           /\ Criteria' = Criteria
      /\ (\E pos \in DragPositions(variant) : DragB(pos)) =>
           /\ circleB'.radius = circleB.radius
           /\ circleA' = circleA
           /\ Criteria' = Criteria
      /\ (\E value \in RadiusValues(variant) : RadiusAInput(value)) =>
           /\ circleA'.x = circleA.x /\ circleA'.y = circleA.y
           /\ circleB' = circleB
           /\ Criteria' = Criteria
      /\ (\E value \in RadiusValues(variant) : RadiusBInput(value)) =>
           /\ circleB'.x = circleB.x /\ circleB'.y = circleB.y
           /\ circleA' = circleA
           /\ Criteria' = Criteria
      /\ ( \/ \E value \in YearValues(variant) : YearMinInput(value)
           \/ \E value \in YearValues(variant) : YearMaxInput(value)
           \/ \E option \in OptionValues(directorOptions) : DirectorChange(option)
           \/ \E option \in OptionValues(neighborhoodOptions) :
                NeighborhoodChange(option) ) =>
           /\ circleA' = circleA
           /\ circleB' = circleB
      /\ Ready => Placement(points') = Placement(points)
    ]_vars

\* circle B dragged and resized, the year range and a dropdown changed:
\* circle A is where the load left it and the points are where they were drawn
C13_Witness ==
  /\ Ready /\ lastEvent = "other"
  /\ circleA = defaultCircleA(variant)
  /\ circleB.x # defaultCircleB(variant).x
  /\ circleB.radius # defaultRadius(variant)
  /\ yearMinSlider # yearSliderMin(variant)
  /\ neighborhoodFilter # "all"
  /\ Placement(points) = Placement(renderDataPoints(variant, allData))
  /\ Len(points) > 1

-----------------------------------------------------------------------------
(* C14: the drawn circles and labels *)

Drawn(tag) == { k \in 1..Len(circlesLayer) : circlesLayer[k].tag = tag }

\* exactly one label with this text is drawn, at the centre of the circle
OneLabelAt(name, circle) ==
  /\ Cardinality({ k \in Drawn("text") : circlesLayer[k].text = name }) = 1
  /\ \A k \in Drawn("text") :
       circlesLayer[k].text = name =>
         circlesLayer[k].x = circle.x /\ circlesLayer[k].y = circle.y

TwoCirclesTwoLabels ==
  /\ Cardinality(Drawn("circle")) = 2
  /\ Cardinality(Drawn("text")) = 2
  /\ OneLabelAt("A", circleA)
  /\ OneLabelAt("B", circleB)

\* C14: after any sequence of events, in both scripts, exactly two query
\* circles and exactly two labels are drawn, one "A" and one "B", each at the
\* current centre of its circle: a call of renderQueryCircles removes what the
\* previous call drew.
C14_TwoCirclesTwoLabels == Ready => TwoCirclesTwoLabels

\* In the aggregating script the statement holds.
C14_InAggregatingScript == (Ready /\ variant = "agg") => TwoCirclesTwoLabels

-----------------------------------------------------------------------------
(* C15: the two scripts agree *)

\* the circle of the per-record script with its radius given in pixels
InPixels(circle) == [circle EXCEPT !.radius = radiusPixels("rec", circle)]

\* the pass of the aggregating script over the loaded rows, on the circles
\* (same centres, same radius in pixels) and the criteria of this state
AggregatedPass ==
  updateFilters("agg", renderDataPoints("agg", allData),
                InPixels(circleA), InPixels(circleB),
                yearMinSlider, yearMaxSlider, directorFilter, neighborhoodFilter)

\* some row of the location is shown by the per-record script
SomeRecordShown(loc) ==
  \E k \in 1..Len(points) :
    /\ points[k].d.Longitude = loc.longitude
    /\ points[k].d.Latitude = loc.latitude
    /\ Shown(points[k])

\* C15: on the rows, criteria and circles of any state of the per-record
\* script, the aggregating script counts as many visible records as the
\* per-record script shows, and shows a location exactly when the per-record
\* script shows at least one of its rows.
C15_ScriptsAgree ==
  (Ready /\ variant = "rec") =>
    /\ AggregatedPass.visibleCount = visibleCount
    /\ \A i \in 1..Len(AggregatedPass.points) :
         (AggregatedPass.points[i].fill = visibleFill("agg"))
           <=> SomeRecordShown(AggregatedPass.points[i].d)

\* the per-record script shows two of the three rows at the shared coordinate
\* and hides the 1950 one; the aggregating script shows the location, count 2
C15_Witness ==
  /\ Ready /\ variant = "rec" /\ csv = SharedDataset
  /\ yearMinSlider = 1960
  /\ visibleCount = 2
  /\ ~Shown(points[1]) /\ Shown(points[2]) /\ Shown(points[3])
  /\ AggregatedPass.visibleCount = 2
  /\ AggregatedPass.points[1].fill = visibleFill("agg")
  /\ Len(AggregatedPass.points[1].d.movies) = 3

-----------------------------------------------------------------------------
(* C16: every dropdown option selects the rows it came from *)

\* the loaded rows from whose field value getUniqueValues derived the option
DerivedFrom(option, field) ==
  { k \in 1..Len(allData) :
      /\ FieldOf(allData[k], field) # ""
      /\ Trim(FieldOf(allData[k], field)) = option }

\* the row passes the record tests with the option chosen in the dropdown of
\* the field, the other dropdown on "all" and the year sliders at their ends
PassesWithOption(movie, option, field) ==
  IF field = "Director"
  THEN movieMatches(movie, yearSliderMin(variant), yearSliderMax(variant),
                    option, "all")
  ELSE movieMatches(movie, yearSliderMin(variant), yearSliderMax(variant),
                    "all", option)

OptionSelectsItsRows(option, field) ==
  /\ DerivedFrom(option, field) # {}
  /\ \A k \in DerivedFrom(option, field) :
       PassesWithOption(allData[k], option, field)

\* C16: every option of the two dropdowns other than "all", once chosen with
\* the other dropdown on "all" and the full year range, is passed by at least
\* one loaded row, namely by every row from whose field value it was derived.
C16_EveryOptionSelectsItsRows ==
  Ready =>
    /\ \A i \in 1..Len(directorOptions) :
         OptionSelectsItsRows(directorOptions[i], "Director")
    /\ \A i \in 1..Len(neighborhoodOptions) :
         OptionSelectsItsRows(neighborhoodOptions[i], "Analysis Neighborhood")

\* Every option is passed by the rows whose field is spelled exactly as it.
C16_OptionSelectsEquallySpelledRows ==
  Ready =>
    \A i \in 1..Len(directorOptions) :
      \A k \in 1..Len(allData) :
        (allData[k].Director = directorOptions[i]) =>
          PassesWithOption(allData[k], directorOptions[i], "Director")
====
